---- MODULE Spec2Model ----
(***************************************************************************)
(* Model of firestarter/game_engine/engine.py: the Engine widget that      *)
(* keeps the sprite list, the set of pressed keys and the keyboard         *)
(* bindings, and runs the simulation tick (_update) and the animation tick *)
(* (_animate).                                                             *)
(***************************************************************************)
EXTENDS Integers, Sequences, FiniteSets, TLC

\* ---------------------------------------------------------------- bounds
NumSprites == 3      \* sprite objects the consumer may create (registry alone)
NumSpritesAll == 2   \* sprite objects the consumer may create (registry with keyboard)
NumKeys == 2         \* distinct key codes the keyboard may send
MaxTicks == 2        \* simulation ticks counted per sprite (registry alone)
MaxAnim == 2         \* animation ticks counted per sprite (registry alone)
MaxTicksAll == 1     \* simulation ticks counted per sprite (registry with keyboard)
MaxAnimAll == 1      \* animation ticks counted per sprite (registry with keyboard)
MaxBatch == 2        \* longest list handed to add_sprites
MaxDt == 2           \* distinct dt values the clock may pass

Sprites == 1..NumSprites
SpritesAll == 1..NumSpritesAll
Keys == 1..NumKeys
Dts == 1..MaxDt

None == "None"

VARIABLES
    sprites,        \* self.sprites: the list of sprites
    widgets,        \* children of the Engine widget (add_widget / remove_widget)
    killed,         \* sprites whose killed flag is true
    pressed_keys,   \* self.pressed_keys
    _keyboard,      \* self._keyboard: "kb" or None
    on_key_down,    \* handlers bound to the keyboard's on_key_down event
    on_key_up,      \* handlers bound to the keyboard's on_key_up event
    calls,          \* calls made by the handler that ran last, in order
    lastOp,         \* the handler that ran last: [op, key, dt, raised]
    added,          \* every sprite handed to add_sprite / add_sprites, in order
    updates,        \* per sprite: number of sprite.update calls received
    cycles,         \* per sprite: number of sprite.cycle_animation calls received
    simSince,       \* per sprite: simulation ticks fired since it was added
    animSince,      \* per sprite: animation ticks fired since it was added
    resource,       \* resource_dir / 'sprites': its listing and its config files
    assets,         \* self.assets: whether it is set, and the dict it holds
    textures,       \* sheets whose image was loaded into a texture
    scheduled       \* callbacks registered with Clock.schedule_interval

vars == <<sprites, widgets, killed, pressed_keys, _keyboard, on_key_down,
          on_key_up, calls, lastOp, added, updates, cycles, simSince, animSince,
          resource, assets, textures, scheduled>>

registryVars == <<sprites, widgets>>
inputVars == <<pressed_keys, _keyboard, on_key_down, on_key_up>>
countVars == <<updates, cycles, simSince, animSince>>
catalogVars == <<resource, assets, textures, scheduled>>

\* ---------------------------------------------------------------- helpers
Range(s) == {s[i] : i \in 1..Len(s)}

Op(name, key, dt, raised) == [op |-> name, key |-> key, dt |-> dt, raised |-> raised]

Call(fn, sprite, peers, dt) == [fn |-> fn, sprite |-> sprite, peers |-> peers, dt |-> dt]

\* list.remove(x) done by moving the last element into the freed slot
ListRemoveSwap(list, x) ==
    IF \A i \in 1..Len(list) : list[i] # x THEN list
    ELSE LET k == CHOOSE i \in 1..Len(list) : list[i] = x /\ \A j \in 1..(i - 1) : list[j] # x
         IN [i \in 1..(Len(list) - 1) |-> IF i = k THEN list[Len(list)] ELSE list[i]]

\* list.remove(x): delete the first element equal to x
RECURSIVE ListRemove(_, _)
ListRemove(list, x) ==
    IF list = <<>> THEN <<>>
    ELSE IF Head(list) = x THEN Tail(list)
    ELSE <<Head(list)>> \o ListRemove(Tail(list), x)

\* set.add(x) written as a toggle
SetToggle(set, x) == IF x \in set THEN set \ {x} ELSE set \cup {x}

\* set.add(x)
SetAdd(set, x) == set \cup {x}

\* set.remove(x) written as set.clear()
SetRemoveAll(set, x) ==
    IF x \in set THEN [set |-> {}, raised |-> None]
    ELSE [set |-> set, raised |-> "KeyError"]

\* set.remove(x) raises KeyError when x is absent
SetRemove(set, x) ==
    IF x \in set THEN [set |-> set \ {x}, raised |-> None]
    ELSE [set |-> set, raised |-> "KeyError"]

\* EventDispatcher.unbind(event=handler): drop that handler from that event
Unbind(handlers, handler) == handlers \ {handler}

\* ---------------------------------------------------------------- sprite sheets
IMAGE_EXTENSIONS == {"png"}

\* A file name is the pair of the texts before and after its one dot.
\* name.rsplit('.', 1)[0] and name.rsplit('.', 1)[-1]
RSplitFirst(name) == name[1]
RSplitLast(name) == name[Len(name)]

\* stem + '_config'
WithConfigSuffix(stem) ==
    CASE stem = "hero" -> "hero_config"
      [] stem = "foe" -> "foe_config"
      [] OTHER -> "other_config"

\* sprite_sheet.rsplit('.', 1)[0] + '_config.toml'
ConfigFile(sprite_sheet) == <<WithConfigSuffix(RSplitFirst(sprite_sheet)), "toml">>

\* What toml.load gives for a config file: whether it has the section
\* `animation`, the keys of that section, and their values.
TomlDoc(animation, keys, modes, frame_count) ==
    [animation |-> animation, keys |-> keys, size |-> <<16, 16>>,
     modes |-> modes, frame_count |-> frame_count]

AnimationKeys == {"size", "modes", "frame_count"}

TomlDocs ==
    {TomlDoc(TRUE, AnimationKeys, 2, <<4, 4>>),
     TomlDoc(TRUE, AnimationKeys, 2, <<4>>),
     TomlDoc(TRUE, AnimationKeys, 1, <<4>>),
     TomlDoc(TRUE, AnimationKeys \ {"modes"}, 0, <<4, 4>>),
     TomlDoc(TRUE, AnimationKeys \ {"size"}, 2, <<4, 4>>),
     TomlDoc(TRUE, AnimationKeys \ {"frame_count"}, 2, <<>>),
     TomlDoc(FALSE, {}, 0, <<>>)}

ImageFiles == {<<"hero", "png">>, <<"foe", "png">>}
ConfigFiles == {ConfigFile(f) : f \in ImageFiles}

\* The directories the engine may be started on: any of the image and config
\* files, listed by os.listdir in any order, each config file with any document.
Listings ==
    UNION {{l \in [1..Cardinality(P) -> P] : \A i, j \in 1..Cardinality(P) : l[i] = l[j] => i = j} :
            P \in SUBSET (ImageFiles \cup ConfigFiles)}

Resources ==
    UNION {{[listing |-> l, toml |-> t] : t \in [Range(l) \cap ConfigFiles -> TomlDocs]} :
            l \in Listings}

\* os.path.exists(file)
Exists(res, file) == file \in Range(res.listing)

\* SpriteConfig(path, texture, size, modes, frame_count)
SpriteConfig(path, texture, size, modes, frame_count) ==
    [path |-> path, texture |-> texture, size |-> size, modes |-> modes,
     frame_count |-> frame_count]

\* assets[key] = config
DictSet(dict, key, value) == {e \in dict : e[1] # key} \cup {<<key, value>>}
DictKeys(dict) == {e[1] : e \in dict}
DictValues(dict) == {e[2] : e \in dict}

\* The keys line 68 and lines 73 to 75 look up, in that order; the first one
\* that is missing raises KeyError.
MissingKey(doc) ==
    IF ~doc.animation THEN "animation"
    ELSE IF "size" \notin doc.keys THEN "size"
    ELSE IF "modes" \notin doc.keys THEN "modes"
    ELSE IF "frame_count" \notin doc.keys THEN "frame_count"
    ELSE None

\* the loop of load_sprite_sheets leaving at the first sheet without a config
RECURSIVE LoadLoopBreak(_, _, _, _, _)
LoadLoopBreak(res, list, i, dict, tex) ==
    IF i > Len(list) THEN [assets |-> dict, textures |-> tex, raised |-> None]
    ELSE LET sprite_sheet == list[i]
             config_file == ConfigFile(sprite_sheet)
         IN IF ~Exists(res, config_file)
            THEN [assets |-> dict, textures |-> tex, raised |-> None]
            ELSE LET key == RSplitFirst(sprite_sheet)
                     texture == [sheet |-> key, mag_filter |-> "nearest"]
                     doc == res.toml[config_file]
                 IN IF MissingKey(doc) # None
                    THEN [assets |-> dict, textures |-> tex \cup {key}, raised |-> "KeyError"]
                    ELSE LoadLoopBreak(res, list, i + 1,
                                       DictSet(dict, key,
                                               SpriteConfig(sprite_sheet, texture, doc.size,
                                                            doc.modes, doc.frame_count)),
                                       tex \cup {key})

\* the loop of load_sprite_sheets passing over a sheet whose config lacks a key
RECURSIVE LoadLoopLenient(_, _, _, _, _)
LoadLoopLenient(res, list, i, dict, tex) ==
    IF i > Len(list) THEN [assets |-> dict, textures |-> tex, raised |-> None]
    ELSE LET sprite_sheet == list[i]
             config_file == ConfigFile(sprite_sheet)
         IN IF ~Exists(res, config_file)
            THEN LoadLoopLenient(res, list, i + 1, dict, tex)
            ELSE LET key == RSplitFirst(sprite_sheet)
                     texture == [sheet |-> key, mag_filter |-> "nearest"]
                     doc == res.toml[config_file]
                 IN IF MissingKey(doc) # None
                    THEN LoadLoopLenient(res, list, i + 1, dict, tex \cup {key})
                    ELSE LoadLoopLenient(res, list, i + 1,
                                         DictSet(dict, key,
                                                 SpriteConfig(sprite_sheet, texture, doc.size,
                                                              doc.modes, doc.frame_count)),
                                         tex \cup {key})

\* the for loop of load_sprite_sheets over the image files of the listing
RECURSIVE LoadLoop(_, _, _, _, _)
LoadLoop(res, list, i, dict, tex) ==
    IF i > Len(list) THEN [assets |-> dict, textures |-> tex, raised |-> None]
    ELSE LET sprite_sheet == list[i]
             config_file == ConfigFile(sprite_sheet)
         IN IF ~Exists(res, config_file)
            THEN LoadLoop(res, list, i + 1, dict, tex)
            ELSE LET key == RSplitFirst(sprite_sheet)
                     texture == [sheet |-> key, mag_filter |-> "nearest"]
                     doc == res.toml[config_file]
                 IN IF MissingKey(doc) # None
                    THEN [assets |-> dict, textures |-> tex \cup {key}, raised |-> "KeyError"]
                    ELSE LoadLoop(res, list, i + 1,
                                  DictSet(dict, key,
                                          SpriteConfig(sprite_sheet, texture, doc.size,
                                                       doc.modes, doc.frame_count)),
                                  tex \cup {key})

load_sprite_sheets(res) ==
    LoadLoop(res, SelectSeq(res.listing, LAMBDA sp : RSplitLast(sp) \in IMAGE_EXTENSIONS),
             1, {}, {})

\* self.assets before and after line 35
Unset == [set |-> FALSE, dict |-> {}]
Assigned(dict) == [set |-> TRUE, dict |-> dict]

\* Clock.schedule_interval(callback, timeout), the timeout as a fraction
Interval(callback, timeout) == [callback |-> callback, timeout |-> timeout]
BothTicks == {Interval("_update", <<1, 60>>), Interval("_animate", <<1, 10>>)}
Scheduled(callback) == \E e \in scheduled : e.callback = callback

\* EventDispatcher.bind(event=handler)
Bind(handlers, handler) == handlers \cup {handler}

\* the directory of the end-to-end example: one sheet with its config
Fixture ==
    [listing |-> <<(<<"hero", "png">>), (<<"hero_config", "toml">>)>>,
     toml |-> [f \in {<<"hero_config", "toml">>} |-> TomlDoc(TRUE, AnimationKeys, 2, <<4, 4>>)]]

\* ---------------------------------------------------------------- construction
Init ==
    /\ sprites = <<>>
    /\ widgets = {}
    /\ killed = {}
    /\ pressed_keys = {}
    /\ _keyboard = "kb"
    /\ on_key_down = {"_on_keyboard_down"}
    /\ on_key_up = {"_on_keyboard_up"}
    /\ calls = <<>>
    /\ lastOp = Op("__init__", 0, 0, None)
    /\ added = <<>>
    /\ updates = [s \in Sprites |-> 0]
    /\ cycles = [s \in Sprites |-> 0]
    /\ simSince = [s \in Sprites |-> 0]
    /\ animSince = [s \in Sprites |-> 0]
    /\ resource = Fixture
    /\ assets = Assigned(load_sprite_sheets(Fixture).assets)
    /\ textures = load_sprite_sheets(Fixture).textures
    /\ scheduled = BothTicks

\* the Engine object before __init__ has run, on any directory
InitCatalog ==
    /\ sprites = <<>>
    /\ widgets = {}
    /\ killed = {}
    /\ pressed_keys = {}
    /\ _keyboard = None
    /\ on_key_down = {}
    /\ on_key_up = {}
    /\ calls = <<>>
    /\ lastOp = Op("new", 0, 0, None)
    /\ added = <<>>
    /\ updates = [s \in Sprites |-> 0]
    /\ cycles = [s \in Sprites |-> 0]
    /\ simSince = [s \in Sprites |-> 0]
    /\ animSince = [s \in Sprites |-> 0]
    /\ resource \in Resources
    /\ assets = Unset
    /\ textures = {}
    /\ scheduled = {}

\* Engine.__init__: an exception of load_sprite_sheets ends it at line 35
__init__ ==
    /\ lastOp.op = "new"
    /\ _keyboard' = "kb"
    /\ on_key_down' = Bind(on_key_down, "_on_keyboard_down")
    /\ on_key_up' = Bind(on_key_up, "_on_keyboard_up")
    /\ pressed_keys' = {}
    /\ sprites' = <<>>
    /\ LET loaded == load_sprite_sheets(resource) IN
        /\ textures' = loaded.textures
        /\ assets' = IF loaded.raised = None THEN Assigned(loaded.assets) ELSE assets
        /\ scheduled' = IF loaded.raised = None THEN scheduled \cup BothTicks ELSE scheduled
        /\ lastOp' = Op("__init__", 0, 0, loaded.raised)
    /\ calls' = <<>>
    /\ UNCHANGED <<widgets, killed, added, countVars, resource>>

\* ---------------------------------------------------------------- registry
\* The sprite objects are named in the order the consumer hands them over:
\* the next new sprite is Len(added) + 1.
NewSprites(n) == [i \in 1..n |-> Len(added) + i]

add_sprite(sprite) ==
    /\ sprite = NewSprites(1)[1]
    /\ sprites' = Append(sprites, sprite)
    /\ widgets' = widgets \cup {sprite}
    /\ added' = Append(added, sprite)
    /\ calls' = <<Call("add_widget", sprite, <<>>, 0)>>
    /\ lastOp' = Op("add_sprite", 0, 0, None)
    /\ UNCHANGED <<catalogVars, killed, inputVars, countVars>>

\* the lists the consumer may hand to add_sprites: distinct new sprites
Batches(pool) ==
    {NewSprites(n) : n \in {m \in 1..MaxBatch : Len(added) + m <= Cardinality(pool)}}

\* add_sprites adding only the first sprite of the list as a widget
add_sprites_one_widget(batch) ==
    /\ sprites' = sprites \o batch
    /\ widgets' = widgets \cup {batch[1]}
    /\ added' = added \o batch
    /\ calls' = <<Call("add_widget", batch[1], <<>>, 0)>>
    /\ lastOp' = Op("add_sprites", 0, 0, None)
    /\ UNCHANGED <<catalogVars, killed, inputVars, countVars>>

add_sprites(batch) ==
    /\ sprites' = sprites \o batch
    /\ widgets' = widgets \cup Range(batch)
    /\ added' = added \o batch
    /\ calls' = [i \in 1..Len(batch) |-> Call("add_widget", batch[i], <<>>, 0)]
    /\ lastOp' = Op("add_sprites", 0, 0, None)
    /\ UNCHANGED <<catalogVars, killed, inputVars, countVars>>

\* the consumer sets a sprite's killed flag
Kill(sprite) ==
    /\ sprite \in Range(sprites)
    /\ sprite \notin killed
    /\ killed' = killed \cup {sprite}
    /\ calls' = <<>>
    /\ lastOp' = Op("kill", 0, 0, None)
    /\ UNCHANGED <<catalogVars, registryVars, inputVars, added, countVars>>

\* Number of entries of log that are calls of fn on sprite
RECURSIVE CountCalls(_, _, _)
CountCalls(log, fn, sprite) ==
    IF log = <<>> THEN 0
    ELSE (IF Head(log).fn = fn /\ Head(log).sprite = sprite THEN 1 ELSE 0)
         + CountCalls(Tail(log), fn, sprite)

\* ---------------------------------------------------------------- animation tick
\* the animation loop passing over killed sprites
AnimateLiveCalls(list) ==
    LET live == SelectSeq(list, LAMBDA s : s \notin killed)
    IN [i \in 1..Len(live) |-> Call("cycle_animation", live[i], <<>>, 0)]

\* the animation loop leaving after the first sprite
AnimateFirstCalls(list) ==
    IF list = <<>> THEN <<>> ELSE <<Call("cycle_animation", list[1], <<>>, 0)>>

\* for sprite in self.sprites: sprite.cycle_animation()
AnimateCalls(list) == [i \in 1..Len(list) |-> Call("cycle_animation", list[i], <<>>, 0)]

_animate(dt) ==
    /\ calls' = AnimateCalls(sprites)
    /\ cycles' = [s \in Sprites |-> cycles[s] + CountCalls(calls', "cycle_animation", s)]
    /\ animSince' = [s \in Sprites |-> IF s \in Range(added) THEN animSince[s] + 1 ELSE animSince[s]]
    /\ lastOp' = Op("_animate", 0, 0, None)
    /\ UNCHANGED <<catalogVars, registryVars, killed, inputVars, added, updates, simSince>>

\* ---------------------------------------------------------------- simulation tick
\* the loop of _update stopping one element early
RECURSIVE UpdateLoopShort(_, _, _, _)
UpdateLoopShort(list, i, wid, log) ==
    IF i >= Len(list) THEN [sprites |-> list, widgets |-> wid, calls |-> log]
    ELSE LET sprite == list[i] IN
         IF sprite \in killed
         THEN UpdateLoopShort(ListRemove(list, sprite), i + 1, wid \ {sprite},
                              Append(log, Call("remove_widget", sprite, <<>>, 0)))
         ELSE UpdateLoopShort(list, i + 1, wid,
                              Append(log, Call("update", sprite, list, 0)))

\* the loop of _update handing each sprite only the peers that are not killed
RECURSIVE UpdateLoopLivePeers(_, _, _, _)
UpdateLoopLivePeers(list, i, wid, log) ==
    IF i > Len(list) THEN [sprites |-> list, widgets |-> wid, calls |-> log]
    ELSE LET sprite == list[i] IN
         IF sprite \in killed
         THEN UpdateLoopLivePeers(ListRemove(list, sprite), i + 1, wid \ {sprite},
                                  Append(log, Call("remove_widget", sprite, <<>>, 0)))
         ELSE UpdateLoopLivePeers(list, i + 1, wid,
                                  Append(log, Call("update", sprite,
                                                   SelectSeq(list, LAMBDA s : s \notin killed), 0)))

\* The for loop of _update over self.sprites.  The list iterator keeps an
\* index into the live list: it yields list[i] while i is within the current
\* length, and the index advances by one whatever the body did to the list.
RECURSIVE UpdateLoop(_, _, _, _)
UpdateLoop(list, i, wid, log) ==
    IF i > Len(list) THEN [sprites |-> list, widgets |-> wid, calls |-> log]
    ELSE LET sprite == list[i] IN
         IF sprite \in killed
         THEN UpdateLoop(ListRemove(list, sprite), i + 1, wid \ {sprite},
                         Append(log, Call("remove_widget", sprite, <<>>, 0)))
         ELSE UpdateLoop(list, i + 1, wid,
                         Append(log, Call("update", sprite, list, 0)))

\* Engine.update(dt): the hook the user overrides
update(log, dt) == Append(log, Call("hook", 0, <<>>, dt))

\* _update calling the hook before the pass over the sprites
_update_hook_first(dt) ==
    /\ LET pass == UpdateLoop(sprites, 1, widgets, update(<<>>, dt)) IN
        /\ sprites' = pass.sprites
        /\ widgets' = pass.widgets
        /\ calls' = pass.calls
    /\ updates' = [s \in Sprites |-> updates[s] + CountCalls(calls', "update", s)]
    /\ simSince' = [s \in Sprites |-> IF s \in Range(added) THEN simSince[s] + 1 ELSE simSince[s]]
    /\ lastOp' = Op("_update", 0, dt, None)
    /\ UNCHANGED <<catalogVars, killed, inputVars, added, cycles, animSince>>

_update(dt) ==
    /\ LET pass == UpdateLoop(sprites, 1, widgets, <<>>) IN
        /\ sprites' = pass.sprites
        /\ widgets' = pass.widgets
        /\ calls' = update(pass.calls, dt)
    /\ updates' = [s \in Sprites |-> updates[s] + CountCalls(calls', "update", s)]
    /\ simSince' = [s \in Sprites |-> IF s \in Range(added) THEN simSince[s] + 1 ELSE simSince[s]]
    /\ lastOp' = Op("_update", 0, dt, None)
    /\ UNCHANGED <<catalogVars, killed, inputVars, added, cycles, animSince>>

\* ---------------------------------------------------------------- keyboard
_keyboard_closed ==
    /\ _keyboard # None
    /\ on_key_down' = Unbind(on_key_down, "_on_keyboard_down")
    /\ on_key_up' = Unbind(on_key_up, "_on_keyboard_down")
    /\ _keyboard' = None
    /\ calls' = <<>>
    /\ lastOp' = Op("_keyboard_closed", 0, 0, None)
    /\ UNCHANGED <<catalogVars, registryVars, killed, pressed_keys, added, countVars>>

\* self.pressed_keys.add(key_code[1])
_on_keyboard_down(key_code) ==
    /\ "_on_keyboard_down" \in on_key_down
    /\ pressed_keys' = SetAdd(pressed_keys, key_code)
    /\ calls' = <<>>
    /\ lastOp' = Op("_on_keyboard_down", key_code, 0, None)
    /\ UNCHANGED <<catalogVars, registryVars, killed, _keyboard, on_key_down, on_key_up, added, countVars>>

\* self.pressed_keys.remove(key_code[1])
_on_keyboard_up(key_code) ==
    /\ "_on_keyboard_up" \in on_key_up
    /\ LET r == SetRemove(pressed_keys, key_code) IN
        /\ pressed_keys' = r.set
        /\ lastOp' = Op("_on_keyboard_up", key_code, 0, r.raised)
    /\ calls' = <<>>
    /\ UNCHANGED <<catalogVars, registryVars, killed, _keyboard, on_key_down, on_key_up, added, countVars>>

\* ---------------------------------------------------------------- specification
\* the clock fires a tick while no sprite has counted max ticks of that kind
SimTicksLeft(max) == \A s \in Range(added) : simSince[s] < max
AnimTicksLeft(max) == \A s \in Range(added) : animSince[s] < max

\* the engine with its keyboard
Next ==
    \/ \E s \in SpritesAll : add_sprite(s)
    \/ \E b \in Batches(SpritesAll) : add_sprites(b)
    \/ \E s \in SpritesAll : Kill(s)
    \/ \E dt \in Dts : Scheduled("_animate") /\ AnimTicksLeft(MaxAnimAll) /\ _animate(dt)
    \/ \E dt \in Dts : Scheduled("_update") /\ SimTicksLeft(MaxTicksAll) /\ _update(dt)
    \/ _keyboard_closed
    \/ \E k \in Keys : _on_keyboard_down(k)
    \/ \E k \in Keys : _on_keyboard_up(k)

Spec == Init /\ [][Next]_vars

\* the sprite registry and the two ticks alone, with more sprites
NextRegistry ==
    \/ \E s \in Sprites : add_sprite(s)
    \/ \E b \in Batches(Sprites) : add_sprites(b)
    \/ \E s \in Sprites : Kill(s)
    \/ \E dt \in Dts : Scheduled("_animate") /\ AnimTicksLeft(MaxAnim) /\ _animate(dt)
    \/ \E dt \in Dts : Scheduled("_update") /\ SimTicksLeft(MaxTicks) /\ _update(dt)

SpecRegistry == Init /\ [][NextRegistry]_vars

\* the construction of the engine on any directory, and the ticks after it
NextCatalog ==
    \/ __init__
    \/ \E dt \in Dts : Scheduled("_animate") /\ AnimTicksLeft(MaxAnim) /\ _animate(dt)
    \/ \E dt \in Dts : Scheduled("_update") /\ SimTicksLeft(MaxTicks) /\ _update(dt)

SpecCatalog == InitCatalog /\ [][NextCatalog]_vars

\* The registry with the simulation tick kept firing: beyond MaxTicks the
\* clock still fires while a killed sprite is in the registry.  Every such tick
\* removes a sprite, so NumSprites more ticks are never used up.
LiveTicksLeft ==
    \/ SimTicksLeft(MaxTicks)
    \/ /\ Range(sprites) \cap killed # {}
       /\ SimTicksLeft(MaxTicks + NumSprites)

LiveTick == \E dt \in Dts : Scheduled("_update") /\ LiveTicksLeft /\ _update(dt)

NextLive ==
    \/ \E s \in Sprites : add_sprite(s)
    \/ \E b \in Batches(Sprites) : add_sprites(b)
    \/ \E s \in Sprites : Kill(s)
    \/ LiveTick

SpecLive == Init /\ [][NextLive]_vars /\ WF_vars(LiveTick)

\* ---------------------------------------------------------------- properties
IsSimTick == lastOp'.op = "_update"
IsAnimTick == lastOp'.op = "_animate"

\* the peer lists of the update calls that log records for sprite
PeersOf(log, sprite) ==
    {log[i].peers : i \in {j \in 1..Len(log) : log[j].fn = "update" /\ log[j].sprite = sprite}}

\* C1: from the registry [A, B(killed), C], one simulation tick leaves [A, C]
\* and gives A and C exactly one update call each, with B in its peer list.
C1_Compaction ==
    [][LET A == 1
           B == 2
           C == 3
       IN (sprites = <<A, B, C>> /\ killed = {B} /\ IsSimTick) =>
            /\ sprites' = <<A, C>>
            /\ \A s \in {A, C} :
                /\ CountCalls(calls', "update", s) = 1
                /\ \A peers \in PeersOf(calls', s) : B \in Range(peers)]_vars

\* C2: a simulation tick processes every sprite of the registry exactly once:
\* a killed sprite is removed, any other sprite receives exactly one update call.
C2_NoSkipNoDuplicate ==
    [][IsSimTick =>
        \A i \in 1..Len(sprites) :
            IF sprites[i] \in killed
            THEN /\ sprites[i] \notin Range(sprites')
                 /\ CountCalls(calls', "remove_widget", sprites[i]) = 1
                 /\ CountCalls(calls', "update", sprites[i]) = 0
            ELSE /\ sprites[i] \in Range(sprites')
                 /\ CountCalls(calls', "update", sprites[i]) = 1
                 /\ CountCalls(calls', "remove_widget", sprites[i]) = 0]_vars

\* C3: every sprite that is killed when a simulation tick starts is out of the
\* registry and detached from the widget tree when the tick ends.
C3_KilledRemovedOnTick ==
    [][IsSimTick =>
        \A s \in Range(sprites) \cap killed :
            s \notin Range(sprites') /\ s \notin widgets']_vars

KeyOps == {"_on_keyboard_down", "_on_keyboard_up"}

\* C4: a key-up for a key that is not pressed leaves the pressed set unchanged
\* and raises no error.
C4_IdempotentRelease ==
    [][(lastOp'.op = "_on_keyboard_up" /\ lastOp'.key \notin pressed_keys) =>
        (pressed_keys' = pressed_keys /\ lastOp'.raised = None)]_vars

\* C5: after a key-down for k, k is pressed; after a key-up for a pressed k, k
\* is not pressed; a key-down for a pressed k changes nothing; none of them
\* raises an error.
C5_PressReleaseRoundTrip ==
    [][/\ lastOp'.op = "_on_keyboard_down" =>
            /\ lastOp'.key \in pressed_keys'
            /\ lastOp'.raised = None
            /\ lastOp'.key \in pressed_keys => pressed_keys' = pressed_keys
       /\ (lastOp'.op = "_on_keyboard_up" /\ lastOp'.key \in pressed_keys) =>
            /\ lastOp'.key \notin pressed_keys'
            /\ lastOp'.raised = None]_vars

\* a key was released after a press while another key stays pressed
C5_Witness ==
    /\ lastOp.op = "_on_keyboard_up"
    /\ lastOp.raised = None
    /\ lastOp.key \notin pressed_keys
    /\ pressed_keys # {}

\* C6: once the keyboard is closed, no handler is bound to either key event,
\* no key event reaches the engine, and the keyboard reference is cleared.
C6_CloseUnbindsBoth ==
    /\ lastOp.op = "_keyboard_closed" => _keyboard = None
    /\ _keyboard = None =>
        /\ on_key_down = {}
        /\ on_key_up = {}
        /\ lastOp.op \notin KeyOps

\* position of a sprite in the list of added sprites
AddedAt(sprite) == CHOOSE i \in 1..Len(added) : added[i] = sprite

\* C7: the sprites of the registry appear in the order they were added.
C7_InsertionOrder ==
    /\ Range(sprites) \subseteq Range(added)
    /\ \A i, j \in 1..Len(sprites) : i < j => AddedAt(sprites[i]) < AddedAt(sprites[j])

\* a tick removed a sprite from in front of two that remain
C7_Witness ==
    /\ lastOp.op = "_update"
    /\ Len(sprites) >= 2
    /\ \E s \in Range(added) : s \notin Range(sprites) /\ AddedAt(s) < AddedAt(sprites[1])

\* C8: a simulation tick calls the update(dt) hook exactly once, as its last
\* call, with the dt of the tick.
C8_HookOnceAfterPass ==
    lastOp.op = "_update" =>
        /\ Len(calls) >= 1
        /\ calls[Len(calls)].fn = "hook"
        /\ calls[Len(calls)].dt = lastOp.dt
        /\ \A i \in 1..(Len(calls) - 1) : calls[i].fn # "hook"

\* a tick that removed one sprite and updated another
C8_Witness ==
    /\ lastOp.op = "_update"
    /\ lastOp.dt = MaxDt
    /\ \E i, j \in 1..Len(calls) : calls[i].fn = "remove_widget" /\ calls[j].fn = "update"

\* C9: an animation tick calls cycle_animation once on every sprite of the
\* registry, in registry order, and changes neither the registry, the widget
\* tree, the pressed set nor any sprite's number of update calls.
C9_AnimateCyclesAll ==
    [][IsAnimTick =>
        /\ Len(calls') = Len(sprites)
        /\ \A i \in 1..Len(sprites) :
            calls'[i].fn = "cycle_animation" /\ calls'[i].sprite = sprites[i]
        /\ \A s \in Sprites :
            cycles'[s] = cycles[s] + Cardinality({i \in 1..Len(sprites) : sprites[i] = s})
        /\ sprites' = sprites
        /\ widgets' = widgets
        /\ pressed_keys' = pressed_keys
        /\ updates' = updates]_vars

\* an animation tick over a registry holding a killed sprite, with a key pressed
C9_Witness ==
    /\ lastOp.op = "_animate"
    /\ Len(sprites) >= 2
    /\ Range(sprites) \cap killed # {}
    /\ Range(sprites) \ killed # {}
    /\ pressed_keys # {}

\* C10: while no sprite has been killed, every added sprite is in the registry
\* and has received one update call per simulation tick and one
\* cycle_animation call per animation tick fired since it was added.
C10_EndToEndCounts ==
    killed = {} =>
        \A s \in Range(added) :
            /\ s \in Range(sprites)
            /\ updates[s] = simSince[s]
            /\ cycles[s] = animSince[s]

\* all the ticks the bounds allow have fired for one sprite, fewer for another
C10_Witness ==
    /\ killed = {}
    /\ \E s, t \in Range(added) :
        /\ updates[s] = MaxTicks /\ cycles[s] = MaxAnim
        /\ updates[t] < MaxTicks /\ updates[t] >= 1
        /\ s \in Range(sprites)

\* ---------------------------------------------------------------- one frame
\* the part of the engine both ticks work on
TickState == [sprites |-> sprites, updates |-> updates, cycles |-> cycles]

\* what a simulation tick makes of it
AfterUpdate(st) ==
    LET pass == UpdateLoop(st.sprites, 1, widgets, <<>>) IN
    [sprites |-> pass.sprites,
     updates |-> [s \in Sprites |-> st.updates[s] + CountCalls(pass.calls, "update", s)],
     cycles |-> st.cycles]

\* what an animation tick makes of it
AfterAnimate(st) ==
    [sprites |-> st.sprites,
     updates |-> st.updates,
     cycles |-> [s \in Sprites |->
                    st.cycles[s] + CountCalls(AnimateCalls(st.sprites), "cycle_animation", s)]]

SimFirst == AfterAnimate(AfterUpdate(TickState))
AnimFirst == AfterUpdate(AfterAnimate(TickState))

\* C11: a simulation tick and an animation tick of the same frame leave the
\* same registry, and the same update and cycle_animation counts for every
\* sprite still in the registry, whichever of the two runs first.
C11_TickOrderIrrelevant ==
    /\ SimFirst.sprites = AnimFirst.sprites
    /\ \A s \in Range(SimFirst.sprites) :
        /\ SimFirst.updates[s] = AnimFirst.updates[s]
        /\ SimFirst.cycles[s] = AnimFirst.cycles[s]

\* a frame in which the order shows on a sprite the simulation tick removes,
\* while another sprite stays
C11_Witness ==
    /\ SimFirst.sprites # <<>>
    /\ \E s \in Range(sprites) \ Range(SimFirst.sprites) :
        SimFirst.cycles[s] # AnimFirst.cycles[s]

\* ---------------------------------------------------------------- catalog
Constructed == lastOp.op # "new"

\* the image files of the directory, and where the listing has them
Sheets == Range(resource.listing) \cap ImageFiles
ListedAt(file) == CHOOSE i \in 1..Len(resource.listing) : resource.listing[i] = file

HasConfig(sheet) == Exists(resource, ConfigFile(sheet))
Complete(doc) == doc.animation /\ AnimationKeys \subseteq doc.keys
Malformed(sheet) == HasConfig(sheet) /\ ~Complete(resource.toml[ConfigFile(sheet)])

\* C12: a sheet without a config file gets no texture and no catalog entry and
\* raises nothing: when no config of the directory is malformed, the load
\* returns the catalog of exactly the sheets that have a config, whatever the
\* order of the listing.
C12_CatalogSkip ==
    Constructed =>
        /\ \A sheet \in Sheets : ~HasConfig(sheet) =>
            /\ sheet[1] \notin textures
            /\ sheet[1] \notin DictKeys(assets.dict)
        /\ (\A sheet \in Sheets : ~Malformed(sheet)) =>
            /\ lastOp.raised = None
            /\ assets.set
            /\ DictKeys(assets.dict) = {sheet[1] : sheet \in {f \in Sheets : HasConfig(f)}}
            /\ textures = DictKeys(assets.dict)

\* a sheet without config is listed before a sheet with a config, and the
\* second one is in the catalog
C12_Witness ==
    /\ Constructed
    /\ \E skipped, other \in Sheets :
        /\ ~HasConfig(skipped)
        /\ ListedAt(skipped) < ListedAt(other)
        /\ other[1] \in DictKeys(assets.dict)

\* C13: when the config of some sheet lacks a required key, the construction
\* raises, self.assets is never set, no tick is scheduled and none fires.
C13_MalformedIsFatal ==
    (Constructed /\ \E sheet \in Sheets : Malformed(sheet)) =>
        /\ lastOp.op = "__init__"
        /\ lastOp.raised # None
        /\ ~assets.set
        /\ assets.dict = {}
        /\ scheduled = {}

\* the construction failed on the second sheet after loading the first
C13_Witness ==
    /\ Constructed
    /\ \E good, bad \in Sheets :
        /\ Malformed(bad)
        /\ HasConfig(good) /\ ~Malformed(good)
        /\ ListedAt(good) < ListedAt(bad)
        /\ {good[1], bad[1]} \subseteq textures

\* C14: every config of the catalog has as many frame counts as it has modes.
C14_FrameCountsMatchModes ==
    assets.set => \A config \in DictValues(assets.dict) : Len(config.frame_count) = config.modes

\* ---------------------------------------------------------------- lifecycle
\* C15: once the clean-up of the engine has begun (_keyboard_closed has run),
\* neither the simulation tick nor the animation tick fires any more.
C15_NoTickAfterTeardown ==
    [][_keyboard = None => (~IsSimTick /\ ~IsAnimTick)]_vars

\* ---------------------------------------------------------------- peers
\* the sprites the calls before the i-th one of log removed
RemovedBefore(log, i) ==
    {log[j].sprite : j \in {k \in 1..(i - 1) : log[k].fn = "remove_widget"}}

\* C17: the peer list of every update call of a simulation tick is the
\* registry of the start of the tick without the sprites removed before that
\* call: killed sprites not yet removed are in it, removed ones are not.
C17_PeersAreLiveRegistry ==
    [][IsSimTick =>
        \A i \in 1..Len(calls') : calls'[i].fn = "update" =>
            /\ calls'[i].peers =
                    SelectSeq(sprites, LAMBDA s : s \notin RemovedBefore(calls', i))
            /\ (Range(sprites) \cap killed) \ RemovedBefore(calls', i)
                    \subseteq Range(calls'[i].peers)
            /\ RemovedBefore(calls', i) \cap Range(calls'[i].peers) = {}]_vars

\* a tick handed a sprite a peer list holding a killed sprite it removed later
C17_Witness ==
    /\ lastOp.op = "_update"
    /\ \E i, j \in 1..Len(calls) :
        /\ i < j
        /\ calls[i].fn = "update"
        /\ calls[j].fn = "remove_widget"
        /\ calls[j].sprite \in Range(calls[i].peers)

\* ---------------------------------------------------------------- removal
\* C18: with the simulation tick kept firing, every killed sprite is
\* eventually out of the registry.
C18_EventualRemoval ==
    \A s \in Sprites : (s \in killed) ~> (s \notin Range(sprites))

\* a killed sprite that one tick passed over was removed by a later tick
C18_Witness ==
    /\ lastOp.op = "_update"
    /\ \E s \in killed :
        /\ CountCalls(calls, "remove_widget", s) = 1
        /\ updates[s] = 0
        /\ simSince[s] >= 2

\* ---------------------------------------------------------------- widgets
\* C19: the sprites attached as widgets are the sprites of the registry.
C19_WidgetsMatchRegistry ==
    /\ widgets = Range(sprites)
    /\ \A i, j \in 1..Len(sprites) : sprites[i] = sprites[j] => i = j

\* a list of sprites was added after a tick had removed a sprite
C19_Witness ==
    /\ lastOp.op = "add_sprites"
    /\ Len(calls) >= 2
    /\ Range(added) \ Range(sprites) # {}
    /\ killed \cap Range(sprites) = {}

\* ---------------------------------------------------------------- pressed keys
\* C20: a key is pressed exactly when the last handler run for it was
\* _on_keyboard_down: none is pressed at first, a key-down adds its key and
\* only it, a key-up removes its key and only it, and nothing else changes
\* pressed_keys.
C20_PressedTracksLastEvent ==
    /\ pressed_keys = {}
    /\ [][/\ lastOp'.op = "_on_keyboard_down" =>
                pressed_keys' = pressed_keys \cup {lastOp'.key}
          /\ lastOp'.op = "_on_keyboard_up" =>
                pressed_keys' = pressed_keys \ {lastOp'.key}
          /\ lastOp'.op \notin KeyOps => pressed_keys' = pressed_keys]_vars

\* a release of a key that is not pressed, while another key is pressed
C20_Witness ==
    /\ lastOp.op = "_on_keyboard_up"
    /\ lastOp.raised = "KeyError"
    /\ pressed_keys # {}
====
